---- MODULE Spec2Model ----
(***************************************************************************)
(* A model of libs/libc/stream/lib_mtdoutstream.c: the output stream that  *)
(* writes a byte sequence into an MTD (flash) device, either by direct     *)
(* byte writes (CONFIG_MTD_BYTE_WRITE and the driver has a write method)   *)
(* or through a one-erase-block cache that is erased and block-written.    *)
(*                                                                         *)
(* Offsets are 0-based as in the C code; TLA+ sequences are 1-based, so    *)
(* the byte at offset i of a buffer b is b[i + 1].                         *)
(***************************************************************************)
EXTENDS Integers, Sequences, FiniteSets, TLC

\* ------------------------------------------------------------------------
\* Bounds of the model

\* The largest number of erase blocks of a modelled device.
MaxEraseBlocks == 3

\* The largest number of device calls that fail during one behaviour.
MaxFail == 1

\* The largest erase block size (in bytes) of a modelled device.
MaxEraseSize == 3

\* The negated errno values a failing driver call returns.
DevErrs == {-5, -110}

\* ------------------------------------------------------------------------
\* Program constants

OK == 0
ENOSPC == 28
EINVAL == 22
ENOMEM == 12

\* The value find_mtddriver returns when the name does not resolve.
FindErrs == {-2}

\* The content of an erased flash cell, and of a cell nobody wrote yet.
Erased == 255
Stale == Erased - 1

\* What a byte of a fresh lib_malloc buffer may hold: zero, or anything else.
Junk == Erased - 2
JunkBytes == {0, Junk}

\* The handlers never look at the value of a byte they are given: they only
\* copy it.  The byte a caller writes at stream offset p is therefore given
\* a value of its own, different from 0 and from every other offset's, so
\* that a byte that lands in the wrong place is always seen.
Data(p) == p + 1

\* The caller's buffer for a write of len bytes at stream offset pos.
Buffer(pos, len) == [i \in 1..len |-> Data(pos + i - 1)]

\* ------------------------------------------------------------------------
\* The devices

\* The geometries of the modelled devices: every erase size up to the
\* bound, made of one-byte blocks or of a single block, and the largest
\* number of erase blocks or a single one.
Geometries ==
    { [blocksize |-> bs, erasesize |-> es, neraseblocks |-> nb] :
        bs \in 1..MaxEraseSize, es \in 1..MaxEraseSize, nb \in {1, MaxEraseBlocks} }

\* A driver whose erase size is a multiple of its block size.
GoodGeometries ==
    { g \in Geometries : g.blocksize \in {1, g.erasesize}
                          /\ (g.neraseblocks = 1 => g.erasesize = MaxEraseSize) }

RefGeometry == [blocksize |-> 1, erasesize |-> 2, neraseblocks |-> 2]

\* Drivers that lib_mtdoutstream_open rejects: a method is missing, or a
\* geometry field is zero (the fields are unsigned, so "<= 0" is "= 0").
BadDevices ==
    { [ioctl |-> FALSE, erase |-> TRUE, bwrite |-> TRUE, write |-> FALSE, geo |-> RefGeometry],
      [ioctl |-> TRUE, erase |-> FALSE, bwrite |-> TRUE, write |-> TRUE, geo |-> RefGeometry],
      [ioctl |-> TRUE, erase |-> TRUE, bwrite |-> FALSE, write |-> TRUE, geo |-> RefGeometry],
      [ioctl |-> TRUE, erase |-> TRUE, bwrite |-> TRUE, write |-> FALSE,
       geo |-> [RefGeometry EXCEPT !.blocksize = 0]],
      [ioctl |-> TRUE, erase |-> TRUE, bwrite |-> TRUE, write |-> FALSE,
       geo |-> [RefGeometry EXCEPT !.erasesize = 0]],
      [ioctl |-> TRUE, erase |-> TRUE, bwrite |-> TRUE, write |-> TRUE,
       geo |-> [RefGeometry EXCEPT !.neraseblocks = 0]] }

GoodDevices ==
    { [ioctl |-> TRUE, erase |-> TRUE, bwrite |-> TRUE, write |-> w, geo |-> g] :
        w \in BOOLEAN, g \in GoodGeometries }

Devices == GoodDevices \cup BadDevices

ZeroGeometry == [blocksize |-> 0, erasesize |-> 0, neraseblocks |-> 0]

VARIABLES
    mtd,      \* the driver behind the device name: its methods and geometry
    flash,    \* the device content, one cell per byte offset
    life,     \* "fresh" (never opened), "open", "closed"
    inode,    \* stream->inode: "NULL", "node", or "wild" (uninitialised)
    cacheptr, \* stream->cache: "NULL", "heap", or "wild" (uninitialised)
    cache,    \* the bytes of the buffer stream->cache points to
    geo,      \* stream->geo
    nput,     \* stream->common.nput
    written,  \* the bytes the stream accepted since open, in order
    nfail,    \* the number of device calls that failed so far
    refs,     \* driver references taken by find_mtddriver and not released
    allocs,   \* cache buffers allocated and not freed
    call,     \* the last call on the stream: its name, arguments and result
    ops,      \* the driver and allocator calls the last call made, in order
    iters     \* the iterations of the last mtdoutstream_puts loop, in order

vars == <<mtd, flash, life, inode, cacheptr, cache, geo, nput, written,
          nfail, refs, allocs, call, ops, iters>>

\* ------------------------------------------------------------------------
\* Helpers

\* memcpy(dst + off, src, Len(src)) on a buffer dst.
memcpy(dst, off, src) ==
    [i \in 1..Len(dst) |-> IF off < i /\ i <= off + Len(src) THEN src[i - off] ELSE dst[i]]

\* memset(dst, 0, n) on a buffer dst.
memset0(dst, n) ==
    [i \in 1..Len(dst) |-> IF i <= n THEN 0 ELSE dst[i]]

Capacity(g) == g.erasesize * g.neraseblocks

\* One logged iteration of the mtdoutstream_puts loop: the branch taken,
\* and remain when the iteration starts and when it ends.
Iter(branch, before, after) == [branch |-> branch, before |-> before, after |-> after]

\* One logged call of the driver or the allocator.
Op(name, a, n, data, src, ret) ==
    [op |-> name, a |-> a, n |-> n, data |-> data, src |-> src, ret |-> ret]

NoFail == [at |-> 0, err |-> OK]

\* A failure plan: the at-th device call of the handler fails with err.
FailPlans(max) == {NoFail} \cup { [at |-> k, err |-> e] : k \in 1..max, e \in DevErrs }

\* ------------------------------------------------------------------------
\* The driver methods, as the stream calls them.  s is the handler's local
\* state; a failing call leaves the device content as it was.

MTD_ERASE(s, g, sblock, nblocks, F) ==
    LET fails == (F.at = Len(s.ops) + 1)
        r     == IF fails THEN F.err ELSE OK
    IN  [s EXCEPT !.ops   = Append(@, Op("erase", sblock, nblocks, <<>>, "", r)),
                  !.flash = IF fails THEN @
                            ELSE [i \in 1..Len(@) |->
                                    IF sblock * g.erasesize < i
                                       /\ i <= (sblock + nblocks) * g.erasesize
                                    THEN Erased ELSE @[i]],
                  !.ret   = r]

MTD_BWRITE(s, g, startblock, nblocks, data, src, F) ==
    LET fails == (F.at = Len(s.ops) + 1)
        r     == IF fails THEN F.err ELSE OK
    IN  [s EXCEPT !.ops   = Append(@, Op("bwrite", startblock, nblocks, data, src, r)),
                  !.flash = IF fails THEN @
                            ELSE memcpy(@, startblock * g.blocksize, data),
                  !.ret   = r]

MTD_WRITE(s, offset, nbytes, data, F) ==
    LET fails == (F.at = Len(s.ops) + 1)
        r     == IF fails THEN F.err ELSE OK
    IN  [s EXCEPT !.ops   = Append(@, Op("write", offset, nbytes, data, "buf", r)),
                  !.flash = IF fails THEN @ ELSE memcpy(@, offset, data),
                  !.ret   = r]

\* The handler's view of the stream on entry.
Entry ==
    [nput |-> nput, cache |-> cache, flash |-> flash, ops |-> <<>>,
     iters |-> <<>>, ptr |-> 0, remain |-> 0, ret |-> OK]

\* ------------------------------------------------------------------------
\* mtdoutstream_flush: commit the partly filled erase block from the cache.
\* g is stream->geo, bytewrite says inode->u.i_mtd->write != NULL.

\* A flush that zeroes the cache once the block is written.
mtdoutstream_flush_clears(s, g, bytewrite, F) ==
    LET erasesize    == g.erasesize
        nblkpererase == erasesize \div g.blocksize
    IN  IF s.nput % erasesize > 0 /\ ~bytewrite
        THEN LET sblock == s.nput \div erasesize
                 s1     == MTD_ERASE(s, g, sblock, 1, F)
             IN  IF s1.ret < 0
                 THEN s1
                 ELSE LET s2 == MTD_BWRITE(s1, g, sblock * nblkpererase, nblkpererase,
                                           SubSeq(s1.cache, 1, nblkpererase * g.blocksize),
                                           "cache", F)
                      IN  IF s2.ret < 0 THEN s2
                          ELSE [s2 EXCEPT !.cache = memset0(@, erasesize)]
        ELSE [s EXCEPT !.ret = OK]

\* A flush that writes the block whether or not its erase succeeded.
mtdoutstream_flush_ignores_erase(s, g, bytewrite, F) ==
    LET erasesize    == g.erasesize
        nblkpererase == erasesize \div g.blocksize
    IN  IF s.nput % erasesize > 0 /\ ~bytewrite
        THEN LET sblock == s.nput \div erasesize
                 s1     == MTD_ERASE(s, g, sblock, 1, F)
             IN  MTD_BWRITE(s1, g, sblock * nblkpererase, nblkpererase,
                            SubSeq(s1.cache, 1, nblkpererase * g.blocksize),
                            "cache", F)
        ELSE [s EXCEPT !.ret = OK]

\* A flush that takes the block after the one nput is in.
mtdoutstream_flush_next_block(s, g, bytewrite, F) ==
    LET erasesize    == g.erasesize
        nblkpererase == erasesize \div g.blocksize
    IN  IF s.nput % erasesize > 0 /\ ~bytewrite
        THEN LET sblock == (s.nput + erasesize - 1) \div erasesize
                 s1     == MTD_ERASE(s, g, sblock, 1, F)
             IN  IF s1.ret < 0
                 THEN s1
                 ELSE MTD_BWRITE(s1, g, sblock * nblkpererase, nblkpererase,
                                 SubSeq(s1.cache, 1, nblkpererase * g.blocksize),
                                 "cache", F)
        ELSE [s EXCEPT !.ret = OK]


mtdoutstream_flush(s, g, bytewrite, F) ==
    LET erasesize    == g.erasesize
        nblkpererase == erasesize \div g.blocksize
    IN  IF s.nput % erasesize > 0 /\ ~bytewrite
        THEN LET sblock == s.nput \div erasesize
                 s1     == MTD_ERASE(s, g, sblock, 1, F)
             IN  IF s1.ret < 0
                 THEN s1
                 ELSE MTD_BWRITE(s1, g, sblock * nblkpererase, nblkpererase,
                                 SubSeq(s1.cache, 1, nblkpererase * g.blocksize),
                                 "cache", F)
        ELSE [s EXCEPT !.ret = OK]

\* ------------------------------------------------------------------------
\* mtdoutstream_puts

\* A capacity check that also refuses the write that fills the device.
NoSpace_refuses_full(pos, len, g) == pos + len >= g.erasesize * g.neraseblocks

\* A capacity check that looks at nput alone.
NoSpace_ignores_len(pos, len, g) == pos > g.erasesize * g.neraseblocks

\* The capacity check on entry.
NoSpace(pos, len, g) == pos + len > g.erasesize * g.neraseblocks

\* A direct path that erases from the block nput lies in (rounding down).
puts_bytewrite_floor(s, g, buf, len, F) ==
    LET erasesize == g.erasesize
        sblock    == s.nput \div erasesize
        eblock    == (s.nput + len + erasesize - 1) \div erasesize
        s1        == IF sblock # eblock
                     THEN MTD_ERASE(s, g, sblock, eblock - sblock, F)
                     ELSE [s EXCEPT !.ret = OK]
    IN  IF s1.ret < 0
        THEN s1
        ELSE LET s2 == MTD_WRITE(s1, s1.nput, len, buf, F)
             IN  IF s2.ret < 0 THEN s2 ELSE [s2 EXCEPT !.nput = @ + len]

\* A direct path that writes the bytes first and erases afterwards.
puts_bytewrite_erases_last(s, g, buf, len, F) ==
    LET erasesize == g.erasesize
        sblock    == (s.nput + erasesize - 1) \div erasesize
        eblock    == (s.nput + len + erasesize - 1) \div erasesize
        s1        == MTD_WRITE(s, s.nput, len, buf, F)
    IN  IF s1.ret < 0
        THEN s1
        ELSE LET s2 == IF sblock # eblock
                       THEN MTD_ERASE(s1, g, sblock, eblock - sblock, F)
                       ELSE [s1 EXCEPT !.ret = OK]
             IN  IF s2.ret < 0 THEN s2 ELSE [s2 EXCEPT !.nput = @ + len]

\* The direct path: erase the blocks the write enters, then byte-write.
puts_bytewrite(s, g, buf, len, F) ==
    LET erasesize == g.erasesize
        sblock    == (s.nput + erasesize - 1) \div erasesize
        eblock    == (s.nput + len + erasesize - 1) \div erasesize
        s1        == IF sblock # eblock
                     THEN MTD_ERASE(s, g, sblock, eblock - sblock, F)
                     ELSE [s EXCEPT !.ret = OK]
    IN  IF s1.ret < 0
        THEN s1
        ELSE LET s2 == MTD_WRITE(s1, s1.nput, len, buf, F)
             IN  IF s2.ret < 0 THEN s2 ELSE [s2 EXCEPT !.nput = @ + len]

\* A continued block whose cache is zeroed before the copy, as for a new one.
puts_partial_zeroed(s, g, buf, F) ==
    LET erasesize    == g.erasesize
        nblkpererase == erasesize \div g.blocksize
        sblock       == s.nput \div erasesize
        offset       == s.nput % erasesize
        copyin       == IF offset + s.remain > erasesize
                        THEN erasesize - offset ELSE s.remain
        s1 == [s EXCEPT !.cache  = memcpy(memset0(@, erasesize), offset,
                                          SubSeq(buf, s.ptr + 1, s.ptr + copyin)),
                        !.ptr    = @ + copyin,
                        !.nput   = @ + copyin,
                        !.remain = @ - copyin,
                        !.iters  = Append(@, Iter("partial", s.remain, s.remain - copyin)),
                        !.ret    = OK]
    IN  IF offset + copyin = erasesize
        THEN LET s2 == MTD_ERASE(s1, g, sblock, 1, F)
             IN  IF s2.ret < 0
                 THEN s2
                 ELSE MTD_BWRITE(s2, g, sblock * nblkpererase, nblkpererase,
                                 SubSeq(s2.cache, 1, nblkpererase * g.blocksize),
                                 "cache", F)
        ELSE s1

\* A continued block whose nput is taken back when the commit fails.
puts_partial_rollback(s, g, buf, F) ==
    LET erasesize    == g.erasesize
        nblkpererase == erasesize \div g.blocksize
        sblock       == s.nput \div erasesize
        offset       == s.nput % erasesize
        copyin       == IF offset + s.remain > erasesize
                        THEN erasesize - offset ELSE s.remain
        s1 == [s EXCEPT !.cache  = memcpy(@, offset, SubSeq(buf, s.ptr + 1, s.ptr + copyin)),
                        !.ptr    = @ + copyin,
                        !.nput   = @ + copyin,
                        !.remain = @ - copyin,
                        !.iters  = Append(@, Iter("partial", s.remain, s.remain - copyin)),
                        !.ret    = OK]
    IN  IF offset + copyin = erasesize
        THEN LET s2 == MTD_ERASE(s1, g, sblock, 1, F)
                 s3 == IF s2.ret < 0
                       THEN s2
                       ELSE MTD_BWRITE(s2, g, sblock * nblkpererase, nblkpererase,
                                       SubSeq(s2.cache, 1, nblkpererase * g.blocksize),
                                       "cache", F)
             IN  IF s3.ret < 0 THEN [s3 EXCEPT !.nput = s.nput] ELSE s3
        ELSE s1


\* A continued block whose new bytes are copied to the start of the cache.
puts_partial_at_start(s, g, buf, F) ==
    LET erasesize    == g.erasesize
        nblkpererase == erasesize \div g.blocksize
        sblock       == s.nput \div erasesize
        offset       == s.nput % erasesize
        copyin       == IF offset + s.remain > erasesize
                        THEN erasesize - offset ELSE s.remain
        s1 == [s EXCEPT !.cache  = memcpy(@, 0, SubSeq(buf, s.ptr + 1, s.ptr + copyin)),
                        !.ptr    = @ + copyin,
                        !.nput   = @ + copyin,
                        !.remain = @ - copyin,
                        !.iters  = Append(@, Iter("partial", s.remain, s.remain - copyin)),
                        !.ret    = OK]
    IN  IF offset + copyin = erasesize
        THEN LET s2 == MTD_ERASE(s1, g, sblock, 1, F)
             IN  IF s2.ret < 0
                 THEN s2
                 ELSE MTD_BWRITE(s2, g, sblock * nblkpererase, nblkpererase,
                                 SubSeq(s2.cache, 1, nblkpererase * g.blocksize),
                                 "cache", F)
        ELSE s1


\* offset > 0: continue the block held in the cache, commit it when full.
puts_partial(s, g, buf, F) ==
    LET erasesize    == g.erasesize
        nblkpererase == erasesize \div g.blocksize
        sblock       == s.nput \div erasesize
        offset       == s.nput % erasesize
        copyin       == IF offset + s.remain > erasesize
                        THEN erasesize - offset ELSE s.remain
        s1 == [s EXCEPT !.cache  = memcpy(@, offset, SubSeq(buf, s.ptr + 1, s.ptr + copyin)),
                        !.ptr    = @ + copyin,
                        !.nput   = @ + copyin,
                        !.remain = @ - copyin,
                        !.iters  = Append(@, Iter("partial", s.remain, s.remain - copyin)),
                        !.ret    = OK]
    IN  IF offset + copyin = erasesize
        THEN LET s2 == MTD_ERASE(s1, g, sblock, 1, F)
             IN  IF s2.ret < 0
                 THEN s2
                 ELSE MTD_BWRITE(s2, g, sblock * nblkpererase, nblkpererase,
                                 SubSeq(s2.cache, 1, nblkpererase * g.blocksize),
                                 "cache", F)
        ELSE s1

\* A new block started in the cache as it is, without zeroing it first.
puts_newblock_nomemset(s, g, buf) ==
    [s EXCEPT !.cache  = memcpy(@, 0, SubSeq(buf, s.ptr + 1, s.ptr + s.remain)),
              !.nput   = @ + s.remain,
              !.remain = 0,
              !.iters  = Append(@, Iter("newblock", s.remain, 0)),
              !.ret    = OK]

\* offset = 0 and less than a block left: start a block in the zeroed cache.
puts_newblock(s, g, buf) ==
    [s EXCEPT !.cache  = memcpy(memset0(@, g.erasesize), 0,
                                SubSeq(buf, s.ptr + 1, s.ptr + s.remain)),
              !.nput   = @ + s.remain,
              !.remain = 0,
              !.iters  = Append(@, Iter("newblock", s.remain, 0)),
              !.ret    = OK]

\* Whole blocks written from ptr without moving ptr past them.
puts_bulk_keeps_ptr(s, g, buf, F) ==
    LET erasesize    == g.erasesize
        nblkpererase == erasesize \div g.blocksize
        sblock       == s.nput \div erasesize
        nblock       == s.remain \div erasesize
        copyin       == nblock * erasesize
        s0 == [s EXCEPT !.iters = Append(@, Iter("bulk", s.remain, s.remain))]
        s1 == MTD_ERASE(s0, g, sblock, nblock, F)
    IN  IF s1.ret < 0
        THEN s1
        ELSE LET s2 == MTD_BWRITE(s1, g, sblock * nblkpererase, nblock * nblkpererase,
                                  SubSeq(buf, s1.ptr + 1,
                                         s1.ptr + nblock * nblkpererase * g.blocksize),
                                  "buf", F)
             IN  IF s2.ret < 0
                 THEN s2
                 ELSE [s2 EXCEPT !.nput   = @ + copyin,
                                 !.remain = @ - copyin,
                                 !.iters  = [@ EXCEPT ![Len(@)].after = s.remain - copyin]]

\* Whole blocks written after erasing only the first of them.
puts_bulk_erases_one(s, g, buf, F) ==
    LET erasesize    == g.erasesize
        nblkpererase == erasesize \div g.blocksize
        sblock       == s.nput \div erasesize
        nblock       == s.remain \div erasesize
        copyin       == nblock * erasesize
        s0 == [s EXCEPT !.iters = Append(@, Iter("bulk", s.remain, s.remain))]
        s1 == MTD_ERASE(s0, g, sblock, 1, F)
    IN  IF s1.ret < 0
        THEN s1
        ELSE LET s2 == MTD_BWRITE(s1, g, sblock * nblkpererase, nblock * nblkpererase,
                                  SubSeq(buf, s1.ptr + 1,
                                         s1.ptr + nblock * nblkpererase * g.blocksize),
                                  "buf", F)
             IN  IF s2.ret < 0
                 THEN s2
                 ELSE [s2 EXCEPT !.ptr    = @ + copyin,
                                 !.nput   = @ + copyin,
                                 !.remain = @ - copyin,
                                 !.iters  = [@ EXCEPT ![Len(@)].after = s.remain - copyin]]

\* Whole blocks written one per iteration.
puts_bulk_one_block(s, g, buf, F) ==
    LET erasesize    == g.erasesize
        nblkpererase == erasesize \div g.blocksize
        sblock       == s.nput \div erasesize
        nblock       == 1
        copyin       == nblock * erasesize
        s0 == [s EXCEPT !.iters = Append(@, Iter("bulk", s.remain, s.remain))]
        s1 == MTD_ERASE(s0, g, sblock, nblock, F)
    IN  IF s1.ret < 0
        THEN s1
        ELSE LET s2 == MTD_BWRITE(s1, g, sblock * nblkpererase, nblock * nblkpererase,
                                  SubSeq(buf, s1.ptr + 1,
                                         s1.ptr + nblock * nblkpererase * g.blocksize),
                                  "buf", F)
             IN  IF s2.ret < 0
                 THEN s2
                 ELSE [s2 EXCEPT !.ptr    = @ + copyin,
                                 !.nput   = @ + copyin,
                                 !.remain = @ - copyin,
                                 !.iters  = [@ EXCEPT ![Len(@)].after = s.remain - copyin]]


\* offset = 0 and at least a block left: write the whole blocks from ptr.
puts_bulk(s, g, buf, F) ==
    LET erasesize    == g.erasesize
        nblkpererase == erasesize \div g.blocksize
        sblock       == s.nput \div erasesize
        nblock       == s.remain \div erasesize
        copyin       == nblock * erasesize
        s0 == [s EXCEPT !.iters = Append(@, Iter("bulk", s.remain, s.remain))]
        s1 == MTD_ERASE(s0, g, sblock, nblock, F)
    IN  IF s1.ret < 0
        THEN s1
        ELSE LET s2 == MTD_BWRITE(s1, g, sblock * nblkpererase, nblock * nblkpererase,
                                  SubSeq(buf, s1.ptr + 1,
                                         s1.ptr + nblock * nblkpererase * g.blocksize),
                                  "buf", F)
             IN  IF s2.ret < 0
                 THEN s2
                 ELSE [s2 EXCEPT !.ptr    = @ + copyin,
                                 !.nput   = @ + copyin,
                                 !.remain = @ - copyin,
                                 !.iters  = [@ EXCEPT ![Len(@)].after = s.remain - copyin]]

\* One iteration of the while loop.
puts_iter(s, g, buf, F) ==
    IF s.nput % g.erasesize > 0 THEN puts_partial(s, g, buf, F)
    ELSE IF s.remain < g.erasesize THEN puts_newblock(s, g, buf)
    ELSE puts_bulk(s, g, buf, F)

RECURSIVE puts_loop(_, _, _, _)
puts_loop(s, g, buf, F) ==
    IF s.remain > 0
    THEN LET s1 == puts_iter(s, g, buf, F)
         IN  IF s1.ret < 0 THEN s1 ELSE puts_loop(s1, g, buf, F)
    ELSE [s EXCEPT !.ret = OK]

\* A puts that returns the last driver call's result instead of len.
mtdoutstream_puts_returns_ret(s, g, bytewrite, buf, len, F) ==
    IF NoSpace(s.nput, len, g)
    THEN [s EXCEPT !.ret = -ENOSPC]
    ELSE IF bytewrite
         THEN puts_bytewrite(s, g, buf, len, F)
         ELSE puts_loop([s EXCEPT !.remain = len], g, buf, F)

mtdoutstream_puts(s, g, bytewrite, buf, len, F) ==
    IF NoSpace(s.nput, len, g)
    THEN [s EXCEPT !.ret = -ENOSPC]
    ELSE LET s1 == IF bytewrite
                   THEN puts_bytewrite(s, g, buf, len, F)
                   ELSE puts_loop([s EXCEPT !.remain = len], g, buf, F)
         IN  IF s1.ret < 0 THEN s1 ELSE [s1 EXCEPT !.ret = len]

\* ------------------------------------------------------------------------
\* lib_mtdoutstream_close on the stream fields st.

\* A close that commits the pending block before it releases the driver.
lib_mtdoutstream_close_flushing(st) ==
    LET pending == st.cacheptr = "heap" /\ st.nput % st.geo.erasesize > 0
        sblock  == st.nput \div st.geo.erasesize
        st0 == IF pending
               THEN MTD_BWRITE(MTD_ERASE(st, st.geo, sblock, 1, NoFail), st.geo,
                               sblock * (st.geo.erasesize \div st.geo.blocksize),
                               st.geo.erasesize \div st.geo.blocksize,
                               st.cache, "cache", NoFail)
               ELSE st
        st1 == IF st0.inode # "NULL"
               THEN [st0 EXCEPT !.ops   = Append(@, Op("close_mtddriver", 0, 0, <<>>, st0.inode, OK)),
                                !.refs  = IF st0.inode = "node" THEN @ - 1 ELSE @,
                                !.inode = "NULL"]
               ELSE st0
    IN  IF st1.cacheptr # "NULL"
        THEN [st1 EXCEPT !.ops      = Append(@, Op("lib_free", 0, 0, <<>>, st1.cacheptr, OK)),
                         !.allocs   = IF st1.cacheptr = "heap" THEN @ - 1 ELSE @,
                         !.cacheptr = "NULL",
                         !.cache    = <<>>]
        ELSE st1

lib_mtdoutstream_close(st) ==
    LET st1 == IF st.inode # "NULL"
               THEN [st EXCEPT !.ops   = Append(@, Op("close_mtddriver", 0, 0, <<>>, st.inode, OK)),
                               !.refs  = IF st.inode = "node" THEN @ - 1 ELSE @,
                               !.inode = "NULL"]
               ELSE st
    IN  IF st1.cacheptr # "NULL"
        THEN [st1 EXCEPT !.ops      = Append(@, Op("lib_free", 0, 0, <<>>, st1.cacheptr, OK)),
                         !.allocs   = IF st1.cacheptr = "heap" THEN @ - 1 ELSE @,
                         !.cacheptr = "NULL",
                         !.cache    = <<>>]
        ELSE st1

\* ------------------------------------------------------------------------
\* lib_mtdoutstream_open on the stream fields st and the driver d.
\* finderr is what find_mtddriver returns, ioctlerr what the geometry ioctl
\* returns, mallocok whether lib_malloc succeeds, junk what the new buffer
\* holds.

\* An open that returns -ENOMEM without releasing the driver.
lib_mtdoutstream_open_leaks(st, d, argsok, finderr, ioctlerr, mallocok, junk) ==
    IF ~argsok
    THEN [st EXCEPT !.ret = -EINVAL]
    ELSE IF finderr < 0
    THEN [st EXCEPT !.ops = Append(@, Op("find_mtddriver", 0, 0, <<>>, "", finderr)),
                    !.ret = finderr]
    ELSE
    LET st1 == [st EXCEPT !.ops      = Append(@, Op("find_mtddriver", 0, 0, <<>>, "", OK)),
                          !.refs     = @ + 1,
                          !.inode    = "NULL",
                          !.cacheptr = "NULL",
                          !.cache    = <<>>,
                          !.geo      = ZeroGeometry,
                          !.nput     = 0]
        queried == d.ioctl /\ d.erase /\ d.bwrite
        st2 == IF queried
               THEN [st1 EXCEPT !.ops = Append(@, Op("ioctl", 0, 0, <<>>, "", ioctlerr)),
                                !.geo = IF ioctlerr < 0 THEN @ ELSE d.geo]
               ELSE st1
    IN  IF \/ ~d.ioctl
           \/ ~d.erase
           \/ ~d.bwrite
           \/ ioctlerr < 0
           \/ st2.geo.blocksize <= 0
           \/ st2.geo.erasesize <= 0
           \/ st2.geo.neraseblocks <= 0
        THEN [st2 EXCEPT !.ops  = Append(@, Op("close_mtddriver", 0, 0, <<>>, "node", OK)),
                         !.refs = @ - 1,
                         !.ret  = -EINVAL]
        ELSE IF ~d.write /\ ~mallocok
        THEN [st2 EXCEPT !.ops  = Append(@, Op("lib_malloc", 0, st2.geo.erasesize, <<>>, "", -1)),
                         !.ret  = -ENOMEM]
        ELSE IF ~d.write
        THEN [st2 EXCEPT !.ops      = Append(@, Op("lib_malloc", 0, st2.geo.erasesize, <<>>, "", OK)),
                         !.allocs   = @ + 1,
                         !.cacheptr = "heap",
                         !.cache    = junk,
                         !.inode    = "node",
                         !.ret      = OK]
        ELSE [st2 EXCEPT !.inode = "node", !.ret = OK]

lib_mtdoutstream_open(st, d, argsok, finderr, ioctlerr, mallocok, junk) ==
    IF ~argsok
    THEN [st EXCEPT !.ret = -EINVAL]
    ELSE IF finderr < 0
    THEN [st EXCEPT !.ops = Append(@, Op("find_mtddriver", 0, 0, <<>>, "", finderr)),
                    !.ret = finderr]
    ELSE
    LET st1 == [st EXCEPT !.ops      = Append(@, Op("find_mtddriver", 0, 0, <<>>, "", OK)),
                          !.refs     = @ + 1,
                          !.inode    = "NULL",
                          !.cacheptr = "NULL",
                          !.cache    = <<>>,
                          !.geo      = ZeroGeometry,
                          !.nput     = 0]
        queried == d.ioctl /\ d.erase /\ d.bwrite
        st2 == IF queried
               THEN [st1 EXCEPT !.ops = Append(@, Op("ioctl", 0, 0, <<>>, "", ioctlerr)),
                                !.geo = IF ioctlerr < 0 THEN @ ELSE d.geo]
               ELSE st1
    IN  IF \/ ~d.ioctl
           \/ ~d.erase
           \/ ~d.bwrite
           \/ ioctlerr < 0
           \/ st2.geo.blocksize <= 0
           \/ st2.geo.erasesize <= 0
           \/ st2.geo.neraseblocks <= 0
        THEN [st2 EXCEPT !.ops  = Append(@, Op("close_mtddriver", 0, 0, <<>>, "node", OK)),
                         !.refs = @ - 1,
                         !.ret  = -EINVAL]
        ELSE IF ~d.write /\ ~mallocok
        THEN [st2 EXCEPT !.ops  = Append(Append(@, Op("lib_malloc", 0, st2.geo.erasesize, <<>>, "", -1)),
                                         Op("close_mtddriver", 0, 0, <<>>, "node", OK)),
                         !.refs = @ - 1,
                         !.ret  = -ENOMEM]
        ELSE IF ~d.write
        THEN [st2 EXCEPT !.ops      = Append(@, Op("lib_malloc", 0, st2.geo.erasesize, <<>>, "", OK)),
                         !.allocs   = @ + 1,
                         !.cacheptr = "heap",
                         !.cache    = junk,
                         !.inode    = "node",
                         !.ret      = OK]
        ELSE [st2 EXCEPT !.inode = "node", !.ret = OK]

\* The stream fields on entry of open and close.
Fields ==
    [inode |-> inode, cacheptr |-> cacheptr, cache |-> cache, geo |-> geo,
     nput |-> nput, flash |-> flash, refs |-> refs, allocs |-> allocs,
     ops |-> <<>>, ret |-> OK]

\* ------------------------------------------------------------------------
\* The state machine

NoCall == [op |-> "none", len |-> 0, nput0 |-> 0, ret |-> OK, void |-> TRUE, pret |-> OK]

Init ==
    /\ mtd \in Devices
    /\ flash = [i \in 1..Capacity(mtd.geo) |-> Stale]
    /\ life = "fresh"
    /\ \E p \in {"NULL", "wild"} : inode = p /\ cacheptr = p
    /\ cache = <<>>
    /\ geo = ZeroGeometry
    /\ nput = 0
    /\ written = <<>>
    /\ nfail = 0
    /\ refs = 0
    /\ allocs = 0
    /\ call = NoCall
    /\ ops = <<>>
    /\ iters = <<>>

\* The failure plans of a handler that makes n device calls when none
\* fails: no failure, or one of these calls fails (the handler returns at
\* the first failure).
Plans(n) == IF nfail < MaxFail THEN FailPlans(n) ELSE {NoFail}

\* The number of device calls in the log that failed.
Failures(log) == Cardinality({ i \in 1..Len(log) : log[i].ret < 0 })

\* The lengths a caller passes: all that fit, and two that do not.
Lengths == 0..(Capacity(geo) - nput + 2)

\* The stream after a handler that worked on the local state r.
Handled(r, buf) ==
    /\ nput' = r.nput
    /\ cache' = r.cache
    /\ flash' = r.flash
    /\ ops' = r.ops
    /\ iters' = r.iters
    /\ written' = written \o SubSeq(buf, 1, r.nput - nput)
    /\ nfail' = nfail + Failures(r.ops)
    /\ UNCHANGED <<mtd, life, inode, cacheptr, geo, refs, allocs>>

Open ==
    /\ life = "fresh"
    /\ \E argsok \in BOOLEAN, finderr \in {OK} \cup FindErrs,
          ioctlerr \in {OK} \cup DevErrs, mallocok \in BOOLEAN :
       \E jb \in JunkBytes : \E junk \in {[i \in 1..mtd.geo.erasesize |-> jb]} :
          LET r == lib_mtdoutstream_open(Fields, mtd, argsok, finderr, ioctlerr, mallocok, junk)
          IN  /\ inode' = r.inode
              /\ cacheptr' = r.cacheptr
              /\ cache' = r.cache
              /\ geo' = r.geo
              /\ nput' = r.nput
              /\ refs' = r.refs
              /\ allocs' = r.allocs
              /\ ops' = r.ops
              /\ flash' = r.flash
              /\ iters' = <<>>
              /\ written' = <<>>
              /\ life' = IF r.ret = OK THEN "open" ELSE life
              /\ call' = [op |-> "open", len |-> 0, nput0 |-> nput, ret |-> r.ret,
                          void |-> FALSE, pret |-> r.ret]
              /\ UNCHANGED <<mtd, nfail>>

Puts ==
    /\ life = "open"
    /\ \E len \in Lengths :
       \E F \in Plans(Len(mtdoutstream_puts(Entry, geo, mtd.write, Buffer(nput, len), len, NoFail).ops)) :
          /\ LET buf == Buffer(nput, len)
                 r   == mtdoutstream_puts(Entry, geo, mtd.write, buf, len, F)
             IN  /\ Handled(r, buf)
                 /\ call' = [op |-> "puts", len |-> len, nput0 |-> nput, ret |-> r.ret,
                             void |-> FALSE, pret |-> r.ret]

\* mtdoutstream_putc: a one-byte puts whose result is dropped.
Putc ==
    /\ life = "open"
    /\ \E F \in Plans(Len(mtdoutstream_puts(Entry, geo, mtd.write, <<Data(nput)>>, 1, NoFail).ops)) :
          /\ LET ch == Data(nput)
                 r  == mtdoutstream_puts(Entry, geo, mtd.write, <<ch>>, 1, F)
             IN  /\ Handled(r, <<ch>>)
                 /\ call' = [op |-> "putc", len |-> 1, nput0 |-> nput, ret |-> OK,
                             void |-> TRUE, pret |-> r.ret]

Flush ==
    /\ life = "open"
    /\ \E F \in Plans(Len(mtdoutstream_flush(Entry, geo, mtd.write, NoFail).ops)) :
          /\ LET r == mtdoutstream_flush(Entry, geo, mtd.write, F)
             IN  /\ Handled(r, <<>>)
                 /\ call' = [op |-> "flush", len |-> 0, nput0 |-> nput, ret |-> r.ret,
                             void |-> FALSE, pret |-> r.ret]

Close ==
    /\ LET r == lib_mtdoutstream_close(Fields)
       IN  /\ inode' = r.inode
           /\ cacheptr' = r.cacheptr
           /\ cache' = r.cache
           /\ refs' = r.refs
           /\ allocs' = r.allocs
           /\ ops' = r.ops
           /\ flash' = r.flash
    /\ iters' = <<>>
    /\ life' = IF life = "open" THEN "closed" ELSE life
    /\ call' = [op |-> "close", len |-> 0, nput0 |-> nput, ret |-> OK,
                void |-> TRUE, pret |-> OK]
    /\ UNCHANGED <<mtd, geo, nput, written, nfail>>

Next == Open \/ Puts \/ Putc \/ Flush \/ Close

Spec == Init /\ [][Next]_vars

\* ------------------------------------------------------------------------
\* The claims

\* The stream is open on a device without byte writes (the cache is used).
Buffered == life = "open" /\ ~mtd.write

\* The last call was one of the stream's write or flush handlers.
Wrote == call.op \in {"puts", "putc", "flush"}

\* The device holds the byte of stream offset i - 1 at that offset.
Held(i) == i <= Len(flash) /\ flash[i] = written[i]

\* The calls of the log that change the device content.
DeviceOps(log) == { i \in 1..Len(log) : log[i].op \in {"erase", "bwrite", "write"} }

\* C1: in both device modes a puts call returns -ENOSPC exactly when
\* nput + len exceeds erasesize * neraseblocks, and such a call makes no
\* driver call and leaves nput, the cache and the device as they were.
C1_NoSpaceChangesNothing ==
    [][ call'.op = "puts" =>
          /\ (call'.ret = -ENOSPC) <=> (nput + call'.len > Capacity(geo))
          /\ call'.ret = -ENOSPC =>
                /\ ops' = <<>>
                /\ nput' = nput
                /\ cache' = cache
                /\ flash' = flash ]_vars

\* A refused write on a buffered stream with a partly filled cache.
C1_Witness ==
    /\ Buffered
    /\ call.op = "puts"
    /\ call.ret = -ENOSPC
    /\ nput % geo.erasesize > 0
    /\ call.len > 0
    /\ call.len <= Capacity(geo)

\* C2: on a buffered stream with no failed device call, after a flush the
\* device holds, over the erase blocks the stream touched, the accepted
\* bytes in order followed by zeros up to the end of the last block.
C2_Concatenation ==
    (Buffered /\ nfail = 0 /\ call.op = "flush") =>
        \A i \in 1..(((nput + geo.erasesize - 1) \div geo.erasesize) * geo.erasesize) :
            flash[i] = IF i <= nput THEN written[i] ELSE 0

\* A flushed stream of more than two blocks whose last block is partial.
C2_Witness ==
    /\ Buffered
    /\ nfail = 0
    /\ call.op = "flush"
    /\ call.ret = OK
    /\ nput > 2 * geo.erasesize
    /\ nput % geo.erasesize > 0
    /\ geo.erasesize - (nput % geo.erasesize) > 1

C4_SubUnitZeroPadding ==
    [][ ( /\ Buffered
          /\ call.op = "puts"
          /\ call.ret = call.len
          /\ call.nput0 % geo.erasesize = 0
          /\ 0 < call.len
          /\ call.len < geo.erasesize
          /\ call'.op = "flush"
          /\ call'.ret = OK ) =>
        \A j \in 1..geo.erasesize :
            flash'[call.nput0 + j] =
                IF j <= call.len THEN Buffer(call.nput0, call.len)[j] ELSE 0 ]_vars

\* A flushed partial block that follows a block of non-zero bytes, the
\* cache having held that earlier block; the padding is longer than one.
C4_Witness ==
    /\ Buffered
    /\ call.op = "flush"
    /\ call.ret = OK
    /\ Len(ops) = 2
    /\ nput > geo.erasesize
    /\ nput % geo.erasesize = 1
    /\ geo.erasesize > 2
    /\ flash[nput] = written[nput]
    /\ flash[nput + 1] = 0
    /\ flash[nput + 2] = 0

\* C5: on a buffered stream, a successful puts of len >= erasesize bytes
\* at an erase block boundary makes exactly two driver calls: one erase
\* and one block write of the n = len \div erasesize blocks starting at block
\* nput \div erasesize, the data being the first n * erasesize bytes of the
\* caller's buffer; the other len % erasesize bytes go to the cache.
C5_BulkWrite ==
    ( /\ Buffered
      /\ call.op = "puts"
      /\ call.ret = call.len
      /\ call.nput0 % geo.erasesize = 0
      /\ call.len >= geo.erasesize ) =>
    LET es    == geo.erasesize
        nblk  == es \div geo.blocksize
        n     == call.len \div es
        first == call.nput0 \div es
        buf   == Buffer(call.nput0, call.len)
    IN  /\ Len(ops) = 2
        /\ ops[1] = Op("erase", first, n, <<>>, "", OK)
        /\ ops[2] = Op("bwrite", first * nblk, n * nblk, SubSeq(buf, 1, n * es), "buf", OK)
        /\ \A j \in 1..(call.len % es) : cache[j] = buf[n * es + j]
        /\ \A j \in 1..(n * es) : flash[call.nput0 + j] = buf[j]

\* Two whole blocks and a remainder written in one call.
C5_Witness ==
    /\ Buffered
    /\ call.op = "puts"
    /\ call.ret = call.len
    /\ call.nput0 % geo.erasesize = 0
    /\ call.len >= 2 * geo.erasesize
    /\ call.len % geo.erasesize > 0
    /\ geo.blocksize < geo.erasesize
    /\ Len(ops) = 2

\* C6: lib_mtdoutstream_close makes no erase and no write call and leaves
\* the device content as it was, also when a partial block is pending.
C6_CloseNeverCommits ==
    [][ call'.op = "close" => (flash' = flash /\ DeviceOps(ops') = {}) ]_vars

\* A closed buffered stream whose last, partial block never reached the
\* device.
C6_Witness ==
    /\ life = "closed"
    /\ call.op = "close"
    /\ ~mtd.write
    /\ Len(ops) = 2
    /\ nput % geo.erasesize > 0
    /\ flash[nput] # written[nput]

\* C7: a flush changes neither nput nor the cache, and a successful flush
\* right after a successful flush leaves the device content as it was.
C7_FlushIdempotent ==
    [][ call'.op = "flush" =>
          /\ nput' = nput
          /\ cache' = cache
          /\ (call.op = "flush" /\ call.ret = OK /\ call'.ret = OK) => flash' = flash ]_vars

\* A successful flush that committed a partial block.
C7_Witness ==
    /\ Buffered
    /\ call.op = "flush"
    /\ call.ret = OK
    /\ Len(ops) = 2
    /\ ops[2].op = "bwrite"
    /\ ops[2].ret = OK
    /\ \A i \in 1..nput : Held(i)

\* C8: a puts that returns no error returns len and advances nput by len;
\* no puts, putc or flush, failed or not, decreases nput.
C8_ReturnsLenAndAdvances ==
    [][ /\ (call'.op = "puts" /\ call'.ret >= 0) =>
              (call'.ret = call'.len /\ nput' = nput + call'.len)
        /\ Wrote' => nput' >= nput ]_vars

\* A successful puts that crossed an erase block boundary.
C8_Witness ==
    /\ life = "open"
    /\ call.op = "puts"
    /\ call.ret = call.len
    /\ call.len > geo.erasesize
    /\ call.nput0 % geo.erasesize > 0
    /\ nput = call.nput0 + call.len

\* C9: while the stream is open, nput <= erasesize * neraseblocks.
C9_CapacityInvariant ==
    life = "open" => nput <= Capacity(geo)

\* A full stream whose last call failed on a device error after it had
\* advanced nput.
C9_Witness ==
    /\ life = "open"
    /\ nput = Capacity(geo)
    /\ Wrote
    /\ call.pret \in DevErrs
    /\ nput > call.nput0

\* C10 as claimed: when the puts inside putc fails, putc returns that
\* error to its caller.
C10_PutcReportsFailure ==
    (call.op = "putc" /\ call.pret < 0) => (~call.void /\ call.ret = call.pret)

\* The stream is open on a device with byte writes (no cache).
Direct == life = "open" /\ mtd.write

\* The last call wrote bytes (puts, or the puts inside putc) and passed the
\* capacity check.
Accepted == call.op \in {"puts", "putc"} /\ call.pret # -ENOSPC

\* The number of erase blocks that end at or before byte offset p, rounded up.
CeilBlock(p) == (p + geo.erasesize - 1) \div geo.erasesize

\* C11: on a direct stream, a puts at nput = p of n bytes first erases
\* exactly the erase blocks ceil(p / erasesize) .. ceil((p + n) / erasesize) - 1
\* (no erase call when there is none) and then byte-writes exactly
\* [p, p + n) from the caller's buffer, the write being made only when the
\* erase did not fail.  So no erase hits a block that holds bytes of the
\* stream, and every block that holds bytes of the stream is, past those
\* bytes, erased.
C11_DirectEraseThenWrite ==
    (Direct /\ Accepted) =>
    LET p      == call.nput0
        n      == call.len
        sblock == CeilBlock(p)
        eblock == CeilBlock(p + n)
        erase  == Op("erase", sblock, eblock - sblock, <<>>, "", OK)
        write  == Op("write", p, n, Buffer(p, n), "buf", OK)
        e      == IF sblock # eblock THEN 1 ELSE 0
    IN  /\ Len(ops) \in {e, e + 1}
        /\ Len(ops) >= 1
        /\ \A i \in 1..Len(ops) : i < Len(ops) => ops[i].ret = OK
        /\ e = 1 => [ops[1] EXCEPT !.ret = OK] = erase
        /\ Len(ops) = e + 1 => [ops[e + 1] EXCEPT !.ret = OK] = write
        /\ Len(ops) = e => ops[e].ret < 0
        /\ \A i \in 1..Len(ops) : ops[i].op = "erase" => ops[i].a * geo.erasesize >= p
        /\ \A i \in 1..(CeilBlock(nput) * geo.erasesize) :
              flash[i] = IF i <= nput THEN written[i] ELSE Erased

\* A direct write that starts inside a block and enters two more.
C11_Witness ==
    /\ Direct
    /\ call.op = "puts"
    /\ call.ret = call.len
    /\ call.nput0 % geo.erasesize > 0
    /\ Len(ops) = 2
    /\ ops[1].op = "erase"
    /\ ops[1].n = 2
    /\ ops[2].op = "write"

\* C12: on a direct stream the device always holds the accepted bytes in
\* [0, nput), with no flush; and a flush makes no driver call and
\* returns OK.
C12_DirectCommitsAsWritten ==
    Direct =>
        /\ Len(written) = nput
        /\ \A i \in 1..nput : Held(i)
        /\ call.op = "flush" => (ops = <<>> /\ call.ret = OK)

\* A flush of a direct stream that stands inside an erase block.
C12_Witness ==
    /\ Direct
    /\ call.op = "flush"
    /\ call.ret = OK
    /\ nput > geo.erasesize
    /\ nput % geo.erasesize > 0
    /\ \A i \in 1..nput : Held(i)

\* The calls named name in the log.
Calls(log, name) == { i \in 1..Len(log) : log[i].op = name }

\* C13: an open that fails after find_mtddriver succeeded has released
\* the driver exactly once, as its last step, and leaves the stream with
\* no driver and no cache; an open that succeeds leaves the stream with
\* the driver, nput = 0, and a cache of erasesize bytes exactly when the
\* driver has no write method.
C13_OpenNeverLeaks ==
    (call.op = "open" /\ Len(ops) >= 1 /\ ops[1].ret = OK) =>
        IF call.ret < 0
        THEN /\ Cardinality(Calls(ops, "close_mtddriver")) = 1
             /\ ops[Len(ops)] = Op("close_mtddriver", 0, 0, <<>>, "node", OK)
             /\ refs = 0
             /\ allocs = 0
             /\ inode = "NULL"
             /\ cacheptr = "NULL"
             /\ life = "fresh"
        ELSE /\ call.ret = OK
             /\ Calls(ops, "close_mtddriver") = {}
             /\ inode = "node"
             /\ refs = 1
             /\ nput = 0
             /\ geo = mtd.geo
             /\ ~mtd.write => (cacheptr = "heap" /\ Len(cache) = geo.erasesize /\ allocs = 1)
             /\ mtd.write => (cacheptr = "NULL" /\ cache = <<>> /\ allocs = 0)

\* An open on a stream of uninitialised memory that failed because the
\* cache could not be allocated.
C13_Witness ==
    /\ call.op = "open"
    /\ call.ret = -ENOMEM
    /\ Len(ops) = 4
    /\ ops[3].op = "lib_malloc"
    /\ ops[4].op = "close_mtddriver"
    /\ refs = 0
    /\ inode = "NULL"


\* C14: a close that follows any call on the stream (a successful open, a
\* failed open, a write, a flush or another close) releases the driver
\* exactly when the stream holds it and frees the cache exactly when the
\* stream holds one, and does nothing when the stream holds neither.
C14_CloseSafeAndIdempotent ==
    [][(call.op # NoCall.op /\ call'.op = "close") =>
          /\ ops' = (IF refs = 1 THEN <<Op("close_mtddriver", 0, 0, <<>>, "node", OK)>> ELSE <<>>)
                    \o (IF allocs = 1 THEN <<Op("lib_free", 0, 0, <<>>, "heap", OK)>> ELSE <<>>)
          /\ refs' = 0
          /\ allocs' = 0]_vars


\* The last call stopped on a device error while it committed the block
\* that it continued and filled.
PartialCommitFailed ==
    /\ Buffered
    /\ call.op \in {"puts", "putc"}
    /\ call.nput0 % geo.erasesize > 0
    /\ Len(iters) = 1
    /\ iters[1].branch = "partial"
    /\ ops # <<>>
    /\ ops[Len(ops)].ret < 0

\* C15: on a stream with a cache, a puts that continues a block, fills it
\* and fails in the erase or the block write of that block returns the
\* driver's error, has made no driver call after the failing one, leaves
\* nput at the block boundary with the whole block in the cache, and has
\* consumed none of its bytes beyond the boundary.
C15_PartialCommitFailure ==
    PartialCommitFailed =>
        LET es     == geo.erasesize
            nblk   == es \div geo.blocksize
            sblock == call.nput0 \div es
            copyin == es - (call.nput0 % es)
            k      == Len(ops)
        IN  /\ call.pret = ops[k].ret
            /\ k \in {1, 2}
            /\ [ops[1] EXCEPT !.ret = OK] = Op("erase", sblock, 1, <<>>, "", OK)
            /\ k = 2 => /\ ops[1].ret = OK
                        /\ [ops[2] EXCEPT !.ret = OK]
                              = Op("bwrite", sblock * nblk, nblk, cache, "cache", OK)
            /\ nput = (sblock + 1) * es
            /\ nput = call.nput0 + copyin
            /\ copyin <= call.len
            /\ iters[1] = Iter("partial", call.len, call.len - copyin)
            /\ Len(written) = nput
            /\ cache = SubSeq(written, nput - es + 1, nput)

\* The block write of the filled block failed in a call that had more
\* bytes than the block could take.
C15_Witness ==
    /\ PartialCommitFailed
    /\ Len(ops) = 2
    /\ ops[2].op = "bwrite"
    /\ call.op = "puts"
    /\ call.ret < 0
    /\ iters[1].after > 0
    /\ nput < call.nput0 + call.len


\* C16: on an open stream with a cache, in every state, when
\* r = nput % erasesize > 0 the first r bytes of the cache are the last r
\* bytes the stream accepted and the other erasesize - r bytes are zero.
C16_CacheContent ==
    Buffered =>
        LET es == geo.erasesize
            r  == nput % es
        IN  /\ Len(cache) = es
            /\ Len(written) = nput
            /\ r > 0 =>
                  /\ SubSeq(cache, 1, r) = SubSeq(written, nput - r + 1, nput)
                  /\ \A i \in (r + 1)..es : cache[i] = 0

\* A flush of a block begun after an earlier one failed on the device and
\* left the cache with the begun block.
C16_Witness ==
    /\ Buffered
    /\ call.op = "flush"
    /\ call.ret < 0
    /\ nput > geo.erasesize
    /\ nput % geo.erasesize > 0
    /\ nput % geo.erasesize < geo.erasesize - 1


\* C17: whenever an erase, block write, byte write or geometry query made
\* by open, puts or flush fails with error e, the call makes no further
\* erase or write call and returns e.
C17_DeviceErrorsVerbatim ==
    call.op \in {"open", "puts", "flush"} =>
        \A i \in 1..Len(ops) :
            (ops[i].op \in {"erase", "bwrite", "write", "ioctl"} /\ ops[i].ret < 0) =>
                /\ call.ret = ops[i].ret
                /\ \A j \in (i + 1)..Len(ops) : ops[j].op \notin {"erase", "bwrite", "write"}


\* C18: on a stream with a cache, every block write that puts, putc or
\* flush issues comes right after a successful erase, in the same call,
\* of exactly the erase blocks it writes; no block write follows a failed
\* erase.
C18_EraseBeforeProgram ==
    (Buffered /\ Wrote) =>
        LET nblk == geo.erasesize \div geo.blocksize
        IN  \A i \in 1..Len(ops) :
                /\ ops[i].op = "bwrite" =>
                      /\ i > 1
                      /\ ops[i - 1].op = "erase"
                      /\ ops[i - 1].ret = OK
                      /\ ops[i - 1].a * nblk = ops[i].a
                      /\ ops[i - 1].n * nblk = ops[i].n
                /\ (ops[i].op = "erase" /\ ops[i].ret < 0) => i = Len(ops)

\* A puts that committed the continued block and then whole blocks: two
\* erases, each followed by its block write.
C18_Witness ==
    /\ Buffered
    /\ call.op = "puts"
    /\ Len(ops) = 4
    /\ ops[1].op = "erase"
    /\ ops[2].op = "bwrite"
    /\ ops[3].op = "erase"
    /\ ops[4].op = "bwrite"
    /\ ops[3].n > 1

\* C19: in both device modes every erase is of blocks within
\* [0, neraseblocks), every block write starts at the first block of an
\* erase block and stays within [0, neraseblocks * nblkpererase), and
\* every byte write stays within [0, erasesize * neraseblocks).
C19_AddressingInRange ==
    (life = "open" /\ Wrote) =>
        LET nblk == geo.erasesize \div geo.blocksize
        IN  \A i \in 1..Len(ops) :
                /\ ops[i].op = "erase" =>
                      /\ ops[i].a >= 0
                      /\ ops[i].n >= 1
                      /\ ops[i].a + ops[i].n <= geo.neraseblocks
                /\ ops[i].op = "bwrite" =>
                      /\ ops[i].a >= 0
                      /\ ops[i].a % nblk = 0
                      /\ ops[i].n >= 1
                      /\ ops[i].a + ops[i].n <= geo.neraseblocks * nblk
                      /\ Len(ops[i].data) = ops[i].n * geo.blocksize
                /\ ops[i].op = "write" =>
                      /\ ops[i].a >= 0
                      /\ ops[i].n = Len(ops[i].data)
                      /\ ops[i].a + ops[i].n <= Capacity(geo)

\* A flush that committed the last erase block of the device.
C19_Witness ==
    /\ Buffered
    /\ call.op = "flush"
    /\ call.ret = OK
    /\ Len(ops) = 2
    /\ ops[1].a = geo.neraseblocks - 1
    /\ geo.neraseblocks > 1
    /\ geo.blocksize < geo.erasesize


\* C20: on a stream with a cache, the loop of a puts that passed the
\* capacity check ends after at most three iterations: the continued
\* block (offset > 0), then the whole blocks (offset = 0 and
\* remain >= erasesize), then the new block (offset = 0 and
\* remain < erasesize), each at most once and each entered with
\* remain > 0; every iteration that runs to its end leaves remain
\* smaller than it found it, the next one starts from there, and the loop
\* ends with remain = 0 unless a driver call failed, which ends the call
\* inside that iteration.
C20_LoopTerminates ==
    (Buffered /\ Accepted) =>
        LET n       == Len(iters)
            es      == geo.erasesize
            rank    == [b \in {"partial", "bulk", "newblock"} |->
                           IF b = "partial" THEN 1 ELSE IF b = "bulk" THEN 2 ELSE 3]
            offs(i) == (call.nput0 + call.len - iters[i].before) % es
            failed  == call.pret < 0
        IN  /\ n <= 3
            /\ n = 0 <=> call.len = 0
            /\ n > 0 => iters[1].before = call.len
            /\ \A i \in 1..n :
                  /\ iters[i].before > 0
                  /\ iters[i].after >= 0
                  /\ iters[i].branch = "partial" <=> offs(i) > 0
                  /\ iters[i].branch = "bulk" <=> (offs(i) = 0 /\ iters[i].before >= es)
                  /\ iters[i].branch = "newblock" <=> (offs(i) = 0 /\ iters[i].before < es)
                  /\ iters[i].after < iters[i].before
                        \/ (i = n /\ failed /\ iters[i].branch = "bulk"
                              /\ iters[i].after = iters[i].before)
                  /\ i < n => /\ rank[iters[i].branch] < rank[iters[i + 1].branch]
                              /\ iters[i + 1].before = iters[i].after
            /\ failed => /\ n > 0
                         /\ iters[n].branch # "newblock"
                         /\ ops # <<>>
                         /\ ops[Len(ops)].ret = call.pret
            /\ (~failed /\ n > 0) => iters[n].after = 0

\* A puts that ran all three iterations and returned len.
C20_Witness ==
    /\ Buffered
    /\ call.op = "puts"
    /\ call.ret = call.len
    /\ Len(iters) = 3
    /\ iters[1].branch = "partial"
    /\ iters[2].branch = "bulk"
    /\ iters[3].branch = "newblock"
    /\ iters[2].before - iters[2].after = geo.erasesize
    /\ geo.erasesize > 1

====
